---- MODULE Spec2Model ----
(***************************************************************************)
(* Model of install/install_spinnaker.py: option validation, the copy      *)
(* fan-out and join, the per-package install loop, the launch-script       *)
(* patcher and the provisioning of the user override configuration.        *)
(*                                                                         *)
(* Text is a sequence of one-character strings; positions are 0-based as   *)
(* in Python, so Slice(s, a, b) is s[a:b].                                 *)
(***************************************************************************)
EXTENDS Integers, Sequences, FiniteSets, TLC

(* ------------------------------ bounds -------------------------------- *)

\* Longest package list read from release_config.cfg.
MaxPkgs == 3

\* Number of text pieces a generated launch script is made of.
MaxPieces == 5

(* ------------------------------- text --------------------------------- *)

NL == "\n"
SQ == "'"
DQ == "\""

Slice(s, a, b) == SubSeq(s, a + 1, b)

startswith(s, p) == Len(s) >= Len(p) /\ SubSeq(s, 1, Len(p)) = p

\* s[from:].find(sub) + from, or -1: the lowest 0-based index >= from where sub occurs.
FindFrom(s, sub, from) ==
  LET hits == {i \in from..(Len(s) - Len(sub)) : Slice(s, i, i + Len(sub)) = sub}
  IN IF hits = {} THEN -1 ELSE CHOOSE i \in hits : \A j \in hits : i <= j

find(s, sub) == FindFrom(s, sub, 0)

RECURSIVE Concat(_)
Concat(ss) == IF ss = <<>> THEN <<>> ELSE Head(ss) \o Concat(Tail(ss))

(* ----------------------- the launch-script patcher --------------------- *)

\* '\nDEFAULT_JVM_OPTS='
JvmOptsKey == <<NL, "D", "E", "F", "A", "U", "L", "T", "_", "J", "V", "M", "_",
                "O", "P", "T", "S", "=">>

\* '-Dspring.config.location='
SpringConfigOpt == <<"-", "D", "s", "p", "r", "i", "n", "g", ".", "c", "o", "n",
                     "f", "i", "g", ".", "l", "o", "c", "a", "t", "i", "o", "n", "=">>

\* root = '/opt/spinnaker/config'
root == <<"/", "o", "p", "t", "/", "s", "p", "i", "n", "n", "a", "k", "e", "r",
          "/", "c", "o", "n", "f", "i", "g">>

\* home = '/root/.spinnaker'
home == <<"/", "r", "o", "o", "t", "/", ".", "s", "p", "i", "n", "n", "a", "k", "e", "r">>

\* re.search('\nDEFAULT_JVM_OPTS=(.+)\n', content): the leftmost position where the
\* key is followed by one or more characters other than newline and then a newline.
\* The result is [start |-> match.start(1), end |-> match.end(1)], or NoMatch.
NoMatch == [start |-> -1, end |-> -1]

MatchAt(content, p) ==
  LET s == p + Len(JvmOptsKey)
      e == FindFrom(content, <<NL>>, s)
  IN /\ Slice(content, p, s) = JvmOptsKey
     /\ e > s

SearchJvmOpts(content) ==
  LET ps == {p \in 0..(Len(content) - Len(JvmOptsKey)) : MatchAt(content, p)}
  IN IF ps = {} THEN NoMatch
     ELSE LET p == CHOOSE q \in ps : \A r \in ps : q <= r
              s == p + Len(JvmOptsKey)
          IN [start |-> s, end |-> FindFrom(content, <<NL>>, s)]

\* Variant: the directive is looked for at the start of the value only.
HasSpringConfigFirst(value) == startswith(value, SpringConfigOpt)

\* value.find('-Dspring.config.location=') >= 0
HasSpringConfig(value) == find(value, SpringConfigOpt) >= 0

\* Variant: the opening quote is not stepped over.
QuoteOffsetNone(value) == 0

\* offset = 1 if value[0] == '\'' or value[0] == '"' else 0
QuoteOffset(value) == IF value[1] = SQ \/ value[1] = DQ THEN 1 ELSE 0

\* quote = '"' if value[0] == '\'' else '\''
InnerQuote(value) == IF value[1] = SQ THEN DQ ELSE SQ

\* '{quote}-Dspring.config.location={root}/,{home}/{quote}'
Directive(quote) ==
  <<quote>> \o SpringConfigOpt \o root \o <<"/", ",">> \o home \o <<"/">> \o <<quote>>

\* ''.join(new_content)
NewContent(content, m) ==
  LET value  == Slice(content, m.start, m.end)
      offset == QuoteOffset(value)
  IN Concat(<< Slice(content, 0, m.start),
               Slice(value, 0, offset),
               Directive(InnerQuote(value)),
               <<" ">>,
               Slice(content, m.start + offset, Len(content)) >>)

(* ------------------------------ the host ------------------------------ *)

GsPrefix == <<"g", "s", ":", "/", "/">>
S3Prefix == <<"s", "3", ":", "/", "/">>

\* Values of --release_path: unset, a plain path, a gs:// URI and an s3:// URI.
ReleasePaths == { <<>>, <<"/", "r">>, GsPrefix \o <<"b">>, S3Prefix \o <<"b">> }

\* Package file names of a release.
GatePkg == <<"g", "a", "t", "e", "_", "1">>
DeckPkg == <<"d", "e", "c", "k", "_", "1">>
Packages == {GatePkg, DeckPkg}

Deck == <<"d", "e", "c", "k">>
Gate == <<"g", "a", "t", "e">>

\* pkg[0:pkg.find('_')]: a name without '_' loses its last character (find is -1).
Subsystem(pkg) ==
  LET u == find(pkg, <<"_">>)
  IN IF u >= 0 THEN Slice(pkg, 0, u) ELSE Slice(pkg, 0, Len(pkg) - 1)

Subsystems == {Subsystem(p) : p \in Packages}

\* Exit codes of a copy process, and of every other command.
JobExitCodes == {0, 1, 2}
ExitCodes == {0, 1}

\* File modes: a launch script as installed, mkstemp's mode, chmod 600.
ScriptMode == "755"
TempMode == "600"
LocalYmlMode == "600"
UserYmlMode == "644"

NoFile == [exists |-> FALSE, content |-> <<>>, mode |-> "none"]
File(c, m) == [exists |-> TRUE, content |-> c, mode |-> m]

\* Launch scripts of the orchestration runs: one to patch, one already carrying a
\* directive, one without the DEFAULT_JVM_OPTS line.
PlainScript ==
  <<"#">> \o JvmOptsKey \o <<SQ, "-", "X", SQ, NL, "r", NL>>
DirectedScript ==
  <<"#">> \o JvmOptsKey \o <<DQ>> \o SpringConfigOpt \o <<"/", "c", DQ, NL>>
ShapelessScript == <<"#", NL, "r", NL>>
MainScripts == {PlainScript, DirectedScript, ShapelessScript}

\* Launch scripts of the patcher runs: every concatenation of at most MaxPieces pieces.
Pieces == { JvmOptsKey, <<NL>>, <<SQ>>, <<DQ>>, <<"-", "X">>, SpringConfigOpt }

RECURSIVE Texts(_)
Texts(n) ==
  IF n = 0 THEN { <<>> }
  ELSE LET shorter == Texts(n - 1)
       IN shorter \cup { p \o t : p \in Pieces, t \in shorter }

RECURSIVE Lists(_)
Lists(n) ==
  IF n = 0 THEN { <<>> }
  ELSE LET shorter == Lists(n - 1)
       IN shorter \cup { <<p>> \o l : p \in Packages, l \in shorter }

(* ------------------------------ the state ----------------------------- *)

VARIABLES
  options,        \* argparse namespace: release_path, region, spinnaker, dependencies
  releaseExists,  \* os.path.exists(options.release_path)
  dirExists,      \* os.path.exists(spinnaker_dir)
  cfg,            \* <spinnaker_dir>/release_config.cfg
  scripts,        \* /opt/<subsystem>/bin/<subsystem>, by subsystem
  prototype,      \* <spinnaker_dir>/config/default-spinnaker-local.yml
  localYml,       \* /root/.spinnaker/spinnaker-local.yml
  yml0,           \* localYml before the first run
  temp,           \* the file made by tempfile.mkstemp()
  pc,             \* position of the control thread
  idx,            \* position in package_list / jobs of the running loop
  package_list,   \* the list parsed from release_config.cfg
  jobs,           \* the subprocesses started by start_copy_file
  log,            \* commands invoked by this run, in order
  patched,        \* returns of inject_spring_config_location in this run
  error           \* the exception that ended the run

vars == << options, releaseExists, dirExists, cfg, scripts, prototype, localYml, yml0,
           temp, pc, idx, package_list, jobs, log, patched, error >>

NoError == [type |-> "none", at |-> "none", code |-> 0]
Raise(t, at, code) == [type |-> t, at |-> at, code |-> code]

Event(op, arg, rc) == [op |-> op, arg |-> arg, rc |-> rc]

RunningJob == [state |-> "running", returncode |-> -1, joined |-> FALSE]

\* options.spinnaker_dir or '/opt/spinnaker'
DefaultSpinnakerDir == <<"/", "o", "p", "t", "/", "s", "p", "i", "n", "n", "a", "k", "e", "r">>
SpinnakerDir(o) == IF o.spinnaker_dir = <<>> THEN DefaultSpinnakerDir ELSE o.spinnaker_dir

\* os.path.join(a, b) for a relative b.
PathJoin(a, b) ==
  IF a = <<>> THEN b
  ELSE IF a[Len(a)] = "/" THEN a \o b
  ELSE a \o <<"/">> \o b

\* os.path.join(get_spinnaker_dir(options), 'config')
get_config_install_dir(o) == PathJoin(SpinnakerDir(o), <<"c", "o", "n", "f", "i", "g">>)

\* Values of --spinnaker_dir: unset, and a path of the operator's.
SpinnakerDirs == { <<>>, <<"/", "x">> }

\* The runs of the whole tool keep the default installation directory.
OptionSets ==
  { o \in [release_path : ReleasePaths, region : BOOLEAN,
           spinnaker : BOOLEAN, dependencies : BOOLEAN, spinnaker_dir : { <<>> }] :
      o.region => startswith(o.release_path, S3Prefix) }

CfgFiles(d) ==
  IF d THEN {[kind |-> "nokey", list |-> <<>>]} \cup
            {[kind |-> "ok", list |-> l] : l \in Lists(MaxPkgs)}
  ELSE {[kind |-> "missing", list |-> <<>>]}

Fresh ==
  /\ pc = "check_options"
  /\ idx = 0
  /\ package_list = <<>>
  /\ jobs = <<>>
  /\ temp = NoFile
  /\ log = <<>>
  /\ patched = <<>>
  /\ error = NoError

Init ==
  /\ options \in OptionSets
  /\ releaseExists \in (IF options.release_path = <<"/", "r">> THEN BOOLEAN ELSE {FALSE})
  /\ dirExists \in BOOLEAN
  /\ cfg \in CfgFiles(dirExists)
  /\ \E s \in MainScripts :
       scripts = [sub \in Subsystems |->
                    IF sub = Deck THEN NoFile ELSE File(s, ScriptMode)]
  /\ prototype = IF dirExists THEN File(<<"p">>, UserYmlMode) ELSE NoFile
  /\ localYml \in {NoFile, File(<<"u">>, UserYmlMode)}
  /\ yml0 = localYml
  /\ Fresh

(* ------------------------------ helpers ------------------------------- *)

\* What no step of a run changes.
Host == << options, releaseExists, cfg, prototype, yml0 >>

Fail(t, code) ==
  /\ error' = Raise(t, pc, code)
  /\ pc' = "failed"

Invoke(op, arg, rc) == log' = Append(log, Event(op, arg, rc))

(* -------------------- check_options, check_release_dir ----------------- *)

\* install_runtime_dependencies.check_options(options): its verdict is not decided
\* by this file.
check_options ==
  /\ pc = "check_options"
  /\ \E ok \in BOOLEAN :
       IF ok THEN pc' = "check_release_dir" /\ error' = error
       ELSE Fail("ValueError", 0)
  /\ UNCHANGED << Host, dirExists, scripts, localYml, temp, idx, package_list, jobs,
                  log, patched >>

\* Variant: a path with no scheme is taken for a local one without looking.
check_release_dir_lenient ==
  /\ pc = "check_release_dir"
  /\ IF options.release_path = <<>> THEN Fail("ValueError", 0)
     ELSE IF startswith(options.release_path, GsPrefix)
       THEN pc' = "gsutil_version" /\ error' = error
     ELSE IF startswith(options.release_path, S3Prefix)
       THEN pc' = "aws_version" /\ error' = error
     ELSE pc' = "check_region" /\ error' = error
  /\ UNCHANGED << Host, dirExists, scripts, localYml, temp, idx, package_list, jobs,
                  log, patched >>

\* Lines 215-230.
check_release_dir ==
  /\ pc = "check_release_dir"
  /\ IF options.release_path = <<>> THEN Fail("ValueError", 0)
     ELSE IF releaseExists THEN pc' = "check_region" /\ error' = error
     ELSE IF startswith(options.release_path, GsPrefix)
       THEN pc' = "gsutil_version" /\ error' = error
     ELSE IF startswith(options.release_path, S3Prefix)
       THEN pc' = "aws_version" /\ error' = error
     ELSE Fail("ValueError", 0)
  /\ UNCHANGED << Host, dirExists, scripts, localYml, temp, idx, package_list, jobs,
                  log, patched >>

\* One run_quick of check_google_path / check_s3_path: a non-zero exit raises.
Probe(at, op, next) ==
  /\ pc = at
  /\ \E rc \in ExitCodes :
       /\ Invoke(op, 0, rc)
       /\ IF rc # 0 THEN Fail("RuntimeError", rc)
          ELSE pc' = next /\ error' = error
  /\ UNCHANGED << Host, dirExists, scripts, localYml, temp, idx, package_list, jobs,
                  patched >>

check_google_path_version == Probe("gsutil_version", "gsutil_version", "gsutil_ls")
check_google_path_ls == Probe("gsutil_ls", "gsutil_ls", "check_region")
check_s3_path_version == Probe("aws_version", "aws_version", "aws_ls")
check_s3_path_ls == Probe("aws_ls", "aws_ls", "check_region")

check_region ==
  /\ pc = "check_region"
  /\ IF startswith(options.release_path, S3Prefix) /\ ~options.region
       THEN Fail("ValueError", 0)
       ELSE pc' = "runtime_dependencies" /\ error' = error
  /\ UNCHANGED << Host, dirExists, scripts, localYml, temp, idx, package_list, jobs,
                  log, patched >>

\* main: the install_runtime_dependencies calls between check_options and
\* install_spinnaker; they return or raise.
runtime_dependencies ==
  /\ pc = "runtime_dependencies"
  /\ \E rc \in ExitCodes :
       /\ Invoke("runtime_dependencies", 0, rc)
       /\ IF rc # 0 THEN Fail("RuntimeError", rc)
          ELSE pc' = "install_spinnaker" /\ error' = error
  /\ UNCHANGED << Host, dirExists, scripts, localYml, temp, idx, package_list, jobs,
                  patched >>

(* ------------------- _install_spinnaker_packages_helper ---------------- *)

\* Variant: without the early return when both flags are off.
install_spinnaker_ungated ==
  /\ pc = "install_spinnaker"
  /\ pc' = IF ~options.spinnaker THEN "spinnaker_dir" ELSE "helper_dir"
  /\ UNCHANGED << Host, dirExists, scripts, localYml, temp, idx, package_list, jobs,
                  log, patched, error >>

install_spinnaker ==
  /\ pc = "install_spinnaker"
  /\ pc' = IF ~(options.spinnaker \/ options.dependencies) THEN "done"
           ELSE IF ~options.spinnaker THEN "spinnaker_dir"
           ELSE "helper_dir"
  /\ UNCHANGED << Host, dirExists, scripts, localYml, temp, idx, package_list, jobs,
                  log, patched, error >>

\* get_spinnaker_dir: safe_mkdir when the directory is absent.
get_spinnaker_dir(at, next) ==
  /\ pc = at
  /\ IF dirExists
       THEN pc' = next /\ UNCHANGED << dirExists, log, error >>
       ELSE \E rc \in ExitCodes :
              /\ Invoke("mkdir", 0, rc)
              /\ IF rc # 0 THEN Fail("RuntimeError", rc) /\ dirExists' = dirExists
                 ELSE pc' = next /\ error' = error /\ dirExists' = TRUE
  /\ UNCHANGED << Host, scripts, localYml, temp, idx, package_list, jobs, patched >>

helper_get_spinnaker_dir == get_spinnaker_dir("helper_dir", "package_list")

\* re.search('\nPACKAGE_LIST="(.*?)"', content).group(1).split()
read_package_list ==
  /\ pc = "package_list"
  /\ IF cfg.kind = "missing" THEN Fail("IOError", 0) /\ package_list' = package_list
     ELSE IF cfg.kind = "nokey"
       THEN Fail("AttributeError", 0) /\ package_list' = package_list
     ELSE pc' = "package_dir" /\ error' = error /\ package_list' = cfg.list
  /\ UNCHANGED << Host, dirExists, scripts, localYml, temp, idx, jobs, log, patched >>

safe_mkdir_package_dir ==
  /\ pc = "package_dir"
  /\ \E rc \in ExitCodes :
       /\ Invoke("mkdir", 1, rc)
       /\ IF rc # 0 THEN Fail("RuntimeError", rc) /\ idx' = idx
          ELSE pc' = "start_copy" /\ error' = error /\ idx' = 1
  /\ UNCHANGED << Host, dirExists, scripts, localYml, temp, package_list, jobs, patched >>

\* The command start_copy_file builds for a source.
CopyCommand(source) ==
  IF startswith(source, GsPrefix) THEN "gsutil_cp"
  ELSE IF startswith(source, S3Prefix) THEN "aws_cp"
  ELSE "cp"

\* Variant: a package listed a second time is not copied again.
start_copy_once ==
  /\ pc = "start_copy"
  /\ IF idx <= Len(package_list)
       THEN /\ IF \E i \in 1..(idx - 1) : package_list[i] = package_list[idx]
                 THEN UNCHANGED << jobs, log >>
                 ELSE /\ Invoke(CopyCommand(options.release_path \o <<"/">>
                                              \o package_list[idx]), idx, 0)
                      /\ jobs' = Append(jobs, RunningJob)
            /\ idx' = idx + 1
            /\ pc' = pc
       ELSE /\ pc' = "wait"
            /\ idx' = 1
            /\ UNCHANGED << jobs, log >>
  /\ UNCHANGED << Host, dirExists, scripts, localYml, temp, package_list, patched, error >>

\* for pkg in package_list: jobs.append(start_copy_file(...))
start_copy_file ==
  /\ pc = "start_copy"
  /\ IF idx <= Len(package_list)
       THEN /\ Invoke(CopyCommand(options.release_path \o <<"/">> \o package_list[idx]),
                      idx, 0)
            /\ jobs' = Append(jobs, RunningJob)
            /\ idx' = idx + 1
            /\ pc' = pc
       ELSE /\ pc' = "wait"
            /\ idx' = 1
            /\ UNCHANGED << jobs, log >>
  /\ UNCHANGED << Host, dirExists, scripts, localYml, temp, package_list, patched, error >>

\* A copy process ends on its own, whenever it does.
JobExit(j) ==
  /\ j \in 1..Len(jobs)
  /\ jobs[j].state = "running"
  /\ pc \notin {"done", "failed"}
  /\ \E rc \in JobExitCodes :
       jobs' = [jobs EXCEPT ![j] = [@ EXCEPT !.state = "exited", !.returncode = rc]]
  /\ UNCHANGED << Host, dirExists, scripts, localYml, temp, pc, idx, package_list, log,
                  patched, error >>

\* j.communicate(), then if j.returncode != 0: raise RuntimeError(...)
communicate(j) ==
  /\ jobs[j].state = "exited"
  /\ jobs' = [jobs EXCEPT ![j] = [@ EXCEPT !.joined = TRUE]]
  /\ Invoke("communicate", j, jobs[j].returncode)
  /\ IF jobs[j].returncode # 0
       THEN /\ error' = Raise("RuntimeError", "wait", jobs[j].returncode)
            /\ pc' = "failed"
            /\ idx' = idx
       ELSE /\ idx' = idx + 1
            /\ pc' = pc
            /\ error' = error

\* The end of the loop over jobs.
AllJoined ==
  /\ pc' = "dpkg"
  /\ idx' = 1
  /\ UNCHANGED << jobs, log, error >>

\* Variant: the jobs are waited on from the last started to the first.
wait_reversed ==
  /\ pc = "wait"
  /\ IF idx <= Len(jobs) THEN communicate(Len(jobs) + 1 - idx) ELSE AllJoined
  /\ UNCHANGED << Host, dirExists, scripts, localYml, temp, package_list, patched >>

\* Variant: a job that exited with a failure is started again and waited on again.
wait_retrying ==
  /\ pc = "wait"
  /\ IF idx <= Len(jobs)
       THEN IF jobs[idx].state = "exited" /\ jobs[idx].returncode # 0
              THEN /\ jobs' = [jobs EXCEPT ![idx] = RunningJob]
                   /\ UNCHANGED << pc, idx, log, error >>
              ELSE communicate(idx)
       ELSE AllJoined
  /\ UNCHANGED << Host, dirExists, scripts, localYml, temp, package_list, patched >>

\* for j in jobs: the jobs in the order they were started.
check_wait_for_copy_complete ==
  /\ pc = "wait"
  /\ IF idx <= Len(jobs) THEN communicate(idx) ELSE AllJoined
  /\ UNCHANGED << Host, dirExists, scripts, localYml, temp, package_list, patched >>

\* run_and_monitor('sudo dpkg -i ' + os.path.join(package_dir, package_list[i])): the
\* exit code is not looked at.
dpkg(i) ==
  /\ \E rc \in ExitCodes : Invoke("dpkg", i, rc)
  /\ pc' = "apt"

\* Variant: the packages are installed from the last of the list to the first.
dpkg_reversed ==
  /\ pc = "dpkg"
  /\ IF idx <= Len(package_list) THEN dpkg(Len(package_list) + 1 - idx)
     ELSE pc' = "final_apt" /\ log' = log
  /\ UNCHANGED << Host, dirExists, scripts, localYml, temp, idx, package_list, jobs,
                  patched, error >>

\* for pkg in package_list: the direct install of the next package, or the loop's end.
dpkg_install ==
  /\ pc = "dpkg"
  /\ IF idx <= Len(package_list) THEN dpkg(idx)
     ELSE pc' = "final_apt" /\ log' = log
  /\ UNCHANGED << Host, dirExists, scripts, localYml, temp, idx, package_list, jobs,
                  patched, error >>

\* Variant: the exit code of the dependency repair is not looked at.
apt_unchecked ==
  /\ pc = "apt"
  /\ \E rc \in ExitCodes : Invoke("apt", idx, rc)
  /\ pc' = "inject"
  /\ UNCHANGED << Host, dirExists, scripts, localYml, temp, idx, package_list, jobs,
                  patched, error >>

\* Variant: the loop goes on to the next package without patching this one.
apt_without_patch ==
  /\ pc = "apt"
  /\ \E rc \in ExitCodes :
       /\ Invoke("apt", idx, rc)
       /\ IF rc # 0 THEN Fail("RuntimeError", rc) /\ idx' = idx
          ELSE pc' = "dpkg" /\ idx' = idx + 1 /\ error' = error
  /\ UNCHANGED << Host, dirExists, scripts, localYml, temp, package_list, jobs, patched >>

\* check_run_and_monitor('sudo apt-get install -f -y') inside the loop.
apt_install ==
  /\ pc = "apt"
  /\ \E rc \in ExitCodes :
       /\ Invoke("apt", idx, rc)
       /\ IF rc # 0 THEN Fail("RuntimeError", rc)
          ELSE pc' = "inject" /\ error' = error
  /\ UNCHANGED << Host, dirExists, scripts, localYml, temp, idx, package_list, jobs,
                  patched >>

(* --------------------- inject_spring_config_location ------------------- *)

Return(sub, outcome, before, after) ==
  [subsystem |-> sub, outcome |-> outcome, before |-> before, after |-> after]

\* Variant: a directive that is already there is taken for a malformed script.
DecideStrict(subsystem, file) ==
  IF subsystem = Deck THEN "deck"
  ELSE IF ~file.exists THEN "ioerror"
  ELSE LET m == SearchJvmOpts(file.content)
       IN IF m = NoMatch THEN "nomatch"
          ELSE IF HasSpringConfig(Slice(file.content, m.start, m.end)) THEN "nomatch"
          ELSE "patch"

\* Variant: a script without the DEFAULT_JVM_OPTS line is passed over.
DecideLenient(subsystem, file) ==
  IF subsystem = Deck THEN "deck"
  ELSE IF ~file.exists THEN "ioerror"
  ELSE LET m == SearchJvmOpts(file.content)
       IN IF m = NoMatch THEN "already"
          ELSE IF HasSpringConfig(Slice(file.content, m.start, m.end)) THEN "already"
          ELSE "patch"

\* What inject_spring_config_location decides from the file it read:
\* "deck", "ioerror", "nomatch", "already" or "patch".
Decide(subsystem, file) ==
  IF subsystem = Deck THEN "deck"
  ELSE IF ~file.exists THEN "ioerror"
  ELSE LET m == SearchJvmOpts(file.content)
       IN IF m = NoMatch THEN "nomatch"
          ELSE IF HasSpringConfig(Slice(file.content, m.start, m.end)) THEN "already"
          ELSE "patch"

\* Lines 252-283: up to the temporary file being written.
inject_spring_config_location ==
  /\ pc = "inject"
  /\ \E subsystem \in {Subsystem(package_list[idx])} :
     \E file \in {scripts[subsystem]} :
     \E d \in {Decide(subsystem, file)} :
        CASE d = "deck" ->
               /\ patched' = Append(patched, Return(subsystem, d, <<>>, <<>>))
               /\ pc' = "dpkg" /\ idx' = idx + 1
               /\ UNCHANGED << temp, log, error >>
          [] d = "ioerror" ->
               /\ Fail("IOError", 0)
               /\ UNCHANGED << temp, log, idx, patched >>
          [] d = "nomatch" ->
               /\ Fail("ValueError", 0)
               /\ UNCHANGED << temp, log, idx, patched >>
          [] d = "already" ->
               /\ patched' = Append(patched,
                                    Return(subsystem, d, file.content, file.content))
               /\ pc' = "dpkg" /\ idx' = idx + 1
               /\ UNCHANGED << temp, log, error >>
          [] d = "patch" ->
               /\ \E m \in {SearchJvmOpts(file.content)} :
                    temp' = File(NewContent(file.content, m), TempMode)
               /\ Invoke("mkstemp", idx, 0)
               /\ pc' = "inject_chmod"
               /\ UNCHANGED << idx, patched, error >>
  /\ UNCHANGED << Host, dirExists, scripts, localYml, package_list, jobs >>

\* Variant: the exit code of the permission copy is not looked at.
inject_chmod_unchecked ==
  /\ pc = "inject_chmod"
  /\ \E rc \in ExitCodes :
       /\ Invoke("chmod_reference", idx, rc)
       /\ temp' = IF rc # 0 THEN temp
                  ELSE [temp EXCEPT !.mode = scripts[Subsystem(package_list[idx])].mode]
  /\ pc' = "inject_mv"
  /\ UNCHANGED << Host, dirExists, scripts, localYml, idx, package_list, jobs, patched,
                  error >>

\* check_run_quick('chmod --reference={path} {temp}')
inject_chmod ==
  /\ pc = "inject_chmod"
  /\ \E rc \in ExitCodes :
       /\ Invoke("chmod_reference", idx, rc)
       /\ IF rc # 0 THEN Fail("RuntimeError", rc) /\ temp' = temp
          ELSE /\ temp' = [temp EXCEPT !.mode = scripts[Subsystem(package_list[idx])].mode]
               /\ pc' = "inject_mv" /\ error' = error
  /\ UNCHANGED << Host, dirExists, scripts, localYml, idx, package_list, jobs, patched >>

\* check_run_quick('sudo mv {temp} {path}')
inject_mv ==
  /\ pc = "inject_mv"
  /\ LET subsystem == Subsystem(package_list[idx])
     IN \E rc \in ExitCodes :
          /\ Invoke("mv", idx, rc)
          /\ IF rc # 0
               THEN Fail("RuntimeError", rc) /\ UNCHANGED << scripts, temp, idx, patched >>
               ELSE /\ scripts' = [scripts EXCEPT ![subsystem] = temp]
                    /\ temp' = NoFile
                    /\ patched' = Append(patched,
                                         Return(subsystem, "patch",
                                                scripts[subsystem].content, temp.content))
                    /\ pc' = "dpkg" /\ idx' = idx + 1
                    /\ error' = error
  /\ UNCHANGED << Host, dirExists, localYml, package_list, jobs >>

\* Variant: the scripts are made executable without the closing repair pass.
final_apt_skipped ==
  /\ pc = "final_apt"
  /\ pc' = "spinnaker_dir"
  /\ UNCHANGED << Host, dirExists, scripts, localYml, temp, idx, package_list, jobs,
                  log, patched, error >>

\* Variant: the exit code of the closing repair pass is not looked at.
final_apt_unchecked ==
  /\ pc = "final_apt"
  /\ \E rc \in ExitCodes : Invoke("apt", 0, rc)
  /\ pc' = "spinnaker_dir"
  /\ UNCHANGED << Host, dirExists, scripts, localYml, temp, idx, package_list, jobs,
                  patched, error >>

\* The check_run_and_monitor('sudo apt-get install -f -y') after the loop.
final_apt_install ==
  /\ pc = "final_apt"
  /\ \E rc \in ExitCodes :
       /\ Invoke("apt", 0, rc)
       /\ IF rc # 0 THEN Fail("RuntimeError", rc)
          ELSE pc' = "spinnaker_dir" /\ error' = error
  /\ UNCHANGED << Host, dirExists, scripts, localYml, temp, idx, package_list, jobs,
                  patched >>

(* --------------------------- install_spinnaker ------------------------- *)

install_get_spinnaker_dir == get_spinnaker_dir("spinnaker_dir", "chmod_scripts")

\* check_run_quick('sudo chmod +x {scripts}/*.sh'), then the same for {install}.
chmod_x(at, n, next) ==
  /\ pc = at
  /\ \E rc \in ExitCodes :
       /\ Invoke("chmod_x", n, rc)
       /\ IF rc # 0 THEN Fail("RuntimeError", rc)
          ELSE pc' = next /\ error' = error
  /\ UNCHANGED << Host, dirExists, scripts, localYml, temp, idx, package_list, jobs,
                  patched >>

chmod_scripts == chmod_x("chmod_scripts", 1, "chmod_install")
chmod_install == chmod_x("chmod_install", 2, "local_yml")

\* Variant: the user file is written whether it exists or not.
NeedsLocalYmlAlways(yml) == TRUE

\* if not os.path.exists(local_yml_path)
NeedsLocalYml(yml) == ~yml.exists

\* Lines 370-378: read the prototype into a temporary file, unless the user file exists.
make_default_spinnaker_yml ==
  /\ pc = "local_yml"
  /\ IF ~NeedsLocalYml(localYml)
       THEN pc' = "done" /\ UNCHANGED << temp, log, error >>
     ELSE IF ~prototype.exists
       THEN Fail("IOError", 0) /\ UNCHANGED << temp, log >>
     ELSE /\ temp' = File(prototype.content, TempMode)
          /\ Invoke("mkstemp", 0, 0)
          /\ pc' = "copy_local_yml"
          /\ error' = error
  /\ UNCHANGED << Host, dirExists, scripts, localYml, idx, package_list, jobs, patched >>

\* sudo bash -c "mkdir -p ... && cp ... && chmod 600 ... && rm -f ...": the chain
\* stops at its first failing command, n of the four having succeeded.
copy_local_yml ==
  /\ pc = "copy_local_yml"
  /\ \E n \in 0..4 :
       /\ Invoke("copy_local_yml", n, IF n = 4 THEN 0 ELSE 1)
       /\ localYml' = IF n >= 3 THEN File(temp.content, LocalYmlMode)
                      ELSE IF n = 2 THEN File(temp.content, temp.mode)
                      ELSE localYml
       /\ temp' = IF n = 4 THEN NoFile ELSE temp
       /\ IF n < 4 THEN Fail("RuntimeError", 1)
          ELSE pc' = "done" /\ error' = error
  /\ UNCHANGED << Host, dirExists, scripts, idx, package_list, jobs, patched >>

(* ------------------------------- runs --------------------------------- *)

\* The operator runs the tool again with the same options on the same host, any
\* number of times.
Rerun ==
  /\ pc \in {"done", "failed"}
  /\ pc' = "check_options"
  /\ idx' = 0
  /\ package_list' = <<>>
  /\ jobs' = <<>>
  /\ temp' = NoFile
  /\ log' = <<>>
  /\ patched' = <<>>
  /\ error' = NoError
  /\ UNCHANGED << options, releaseExists, cfg, prototype, yml0, dirExists, scripts,
                  localYml >>

Next ==
  \/ check_options
  \/ check_release_dir
  \/ check_google_path_version
  \/ check_google_path_ls
  \/ check_s3_path_version
  \/ check_s3_path_ls
  \/ check_region
  \/ runtime_dependencies
  \/ install_spinnaker
  \/ helper_get_spinnaker_dir
  \/ read_package_list
  \/ safe_mkdir_package_dir
  \/ start_copy_file
  \/ \E j \in 1..(MaxPkgs + 1) : JobExit(j)
  \/ check_wait_for_copy_complete
  \/ dpkg_install
  \/ apt_install
  \/ inject_spring_config_location
  \/ inject_chmod
  \/ inject_mv
  \/ final_apt_install
  \/ install_get_spinnaker_dir
  \/ chmod_scripts
  \/ chmod_install
  \/ make_default_spinnaker_yml
  \/ copy_local_yml
  \/ Rerun

Spec == Init /\ [][Next]_vars

(* ------------------------------- one run ------------------------------- *)

\* The statements of main(), in the order the interpreter runs them.
Step ==
  \/ check_options
  \/ check_release_dir
  \/ check_google_path_version
  \/ check_google_path_ls
  \/ check_s3_path_version
  \/ check_s3_path_ls
  \/ check_region
  \/ runtime_dependencies
  \/ install_spinnaker
  \/ helper_get_spinnaker_dir
  \/ read_package_list
  \/ safe_mkdir_package_dir
  \/ start_copy_file
  \/ check_wait_for_copy_complete
  \/ dpkg_install
  \/ apt_install
  \/ inject_spring_config_location
  \/ inject_chmod
  \/ inject_mv
  \/ final_apt_install
  \/ install_get_spinnaker_dir
  \/ chmod_scripts
  \/ chmod_install
  \/ make_default_spinnaker_yml
  \/ copy_local_yml

NextOnce ==
  \/ Step
  \/ \E j \in 1..(MaxPkgs + 1) : JobExit(j)

\* Releases of the fair runs: none, one or two packages to copy, install and patch.
LiveLists == { <<>>, <<GatePkg>>, <<DeckPkg, GatePkg>> }

InitLive ==
  /\ Init
  /\ cfg.list \in LiveLists

\* One run of main() in which the interpreter keeps running the next statement and
\* every copy process that was started exits.
SpecLive ==
  /\ InitLive
  /\ [][NextOnce]_vars
  /\ WF_vars(Step)
  /\ \A j \in 1..(MaxPkgs + 1) : WF_vars(JobExit(j))

(* --------------------------- the patcher runs -------------------------- *)

\* A run that has copied and joined a release listing the same package twice, so that
\* the install loop patches one launch script two times; the script is any text made
\* of at most MaxPieces pieces.
InitPatch ==
  /\ options = [release_path |-> <<"/", "r">>, region |-> FALSE,
                spinnaker |-> TRUE, dependencies |-> TRUE, spinnaker_dir |-> <<>>]
  /\ releaseExists = TRUE
  /\ dirExists = TRUE
  /\ package_list = <<GatePkg, GatePkg>>
  /\ cfg = [kind |-> "ok", list |-> package_list]
  /\ \E t \in Texts(MaxPieces) :
       scripts = [sub \in Subsystems |->
                    IF sub = Deck THEN NoFile ELSE File(t, ScriptMode)]
  /\ prototype = File(<<"p">>, UserYmlMode)
  /\ localYml = NoFile
  /\ yml0 = localYml
  /\ temp = NoFile
  /\ pc = "dpkg"
  /\ idx = 1
  /\ jobs = [j \in 1..2 |-> [state |-> "exited", returncode |-> 0, joined |-> TRUE]]
  /\ log = << Event("runtime_dependencies", 0, 0), Event("mkdir", 1, 0),
              Event("cp", 1, 0), Event("cp", 2, 0),
              Event("communicate", 1, 0), Event("communicate", 2, 0) >>
  /\ patched = <<>>
  /\ error = NoError

NextPatch ==
  \/ dpkg_install
  \/ apt_install
  \/ inject_spring_config_location
  \/ inject_chmod
  \/ inject_mv
  \/ final_apt_install

SpecPatch == InitPatch /\ [][NextPatch]_vars

(* ---------------------- the installation directory --------------------- *)

\* A run that has copied and joined a release, with --spinnaker_dir unset or set.
InitRoot ==
  /\ \E d \in SpinnakerDirs :
       options = [release_path |-> <<"/", "r">>, region |-> FALSE,
                  spinnaker |-> TRUE, dependencies |-> TRUE, spinnaker_dir |-> d]
  /\ releaseExists = TRUE
  /\ dirExists = TRUE
  /\ package_list \in Lists(MaxPkgs)
  /\ cfg = [kind |-> "ok", list |-> package_list]
  /\ \E s \in MainScripts :
       scripts = [sub \in Subsystems |->
                    IF sub = Deck THEN NoFile ELSE File(s, ScriptMode)]
  /\ prototype = File(<<"p">>, UserYmlMode)
  /\ localYml = NoFile
  /\ yml0 = localYml
  /\ temp = NoFile
  /\ pc = "dpkg"
  /\ idx = 1
  /\ jobs = [j \in 1..Len(package_list) |->
               [state |-> "exited", returncode |-> 0, joined |-> TRUE]]
  /\ log = << Event("runtime_dependencies", 0, 0), Event("mkdir", 1, 0) >>
            \o [j \in 1..Len(package_list) |-> Event("cp", j, 0)]
            \o [j \in 1..Len(package_list) |-> Event("communicate", j, 0)]
  /\ patched = <<>>
  /\ error = NoError

SpecRoot == InitRoot /\ [][NextPatch]_vars

(* ------------------------------ properties ---------------------------- *)

Positions(op) == {k \in 1..Len(log) : log[k].op = op}

FailedJobs == {j \in 1..Len(jobs) : jobs[j].state = "exited" /\ jobs[j].returncode # 0}

RaisedByWait == pc = "failed" /\ error.at = "wait"

IsPackageManager(e) == e.op \in {"dpkg", "apt"}
PackageManagerLog == SelectSeq(log, IsPackageManager)

\* C1: when the wait for the copy jobs raises, every started job has been joined.
C1_AllJoinedBeforeRaise ==
  RaisedByWait => \A j \in 1..Len(jobs) : jobs[j].joined

\* C2: when the wait for the copy jobs raises, the error carries the exit code of the
\* failed job that was started first, whatever the jobs started after it exited with.
C2_FirstFailureRaised ==
  RaisedByWait =>
    /\ FailedJobs # {}
    /\ LET first == CHOOSE j \in FailedJobs : \A k \in FailedJobs : j <= k
       IN /\ error.code = jobs[first].returncode
          /\ jobs[first].joined

C2_Witness ==
  /\ RaisedByWait
  /\ \E j, k \in FailedJobs :
       /\ j < k
       /\ jobs[j].returncode # jobs[k].returncode
       /\ error.code = jobs[j].returncode

\* C3: a run that ends without a failure has invoked dpkg for the packages in list
\* order, a repair pass right after each, and one more repair pass at the end:
\* N + 1 repair passes for N packages.
C3_InstallOrder ==
  (pc = "done" /\ options.spinnaker) =>
    LET n == Len(package_list)
        d == PackageManagerLog
    IN /\ Len(d) = 2 * n + 1
       /\ \A i \in 1..n :
            /\ d[2 * i - 1].op = "dpkg" /\ d[2 * i - 1].arg = i
            /\ d[2 * i].op = "apt" /\ d[2 * i].arg = i
       /\ d[2 * n + 1].op = "apt" /\ d[2 * n + 1].arg = 0
       /\ Cardinality(Positions("apt")) = n + 1

C3_Witness ==
  /\ pc = "done"
  /\ options.spinnaker
  /\ Len(package_list) = 3
  /\ Cardinality(Positions("apt")) = 4
  /\ Cardinality(Positions("dpkg")) = 3

\* C4: whatever dpkg -i exits with, the run goes on to that package's repair pass;
\* a repair pass that exits non-zero is the last command of the run, which has failed.
C4_SoftThenHard ==
  /\ \A k \in Positions("dpkg") :
       IF k = Len(log) THEN pc = "apt"
       ELSE log[k + 1].op = "apt" /\ log[k + 1].arg = log[k].arg
  /\ \A k \in Positions("apt") :
       log[k].rc # 0 => k = Len(log) /\ pc = "failed" /\ error.type = "RuntimeError"

C4_Witness ==
  /\ pc = "failed"
  /\ Len(package_list) = 3
  /\ \E k \in Positions("dpkg") :
       /\ log[k].rc # 0 /\ log[k].arg = 1
       /\ log[k + 1].op = "apt" /\ log[k + 1].rc = 0
  /\ log[Len(log)] = Event("apt", 2, 1)

\* C5: once a launch script has been patched, a further application to it finds the
\* directive and returns with the content the first application left.
C5_PatchIdempotent ==
  \A i, j \in 1..Len(patched) :
    (i < j /\ patched[i].outcome = "patch"
           /\ patched[j].subsystem = patched[i].subsystem) =>
      /\ patched[j].outcome = "already"
      /\ patched[j].before = patched[i].after
      /\ patched[j].after = patched[i].after
      /\ scripts[patched[i].subsystem].content = patched[i].after

C5_Witness ==
  /\ Len(patched) = 2
  /\ patched[1].outcome = "patch"
  /\ patched[2].outcome = "already"
  /\ patched[1].after # patched[1].before

\* C6: patching a script whose value opens with a quote keeps every character up to
\* and including that quote, and every character after it, and puts between them the
\* directive, wrapped in the other quote, and a space.
C6_QuotePreserved ==
  \A i \in 1..Len(patched) :
    patched[i].outcome = "patch" =>
      LET b == patched[i].before
          a == patched[i].after
          s == SearchJvmOpts(b).start
          q == b[s + 1]
          other == IF q = SQ THEN DQ ELSE SQ
          ins == <<other>> \o SpringConfigOpt \o root \o <<"/", ",">> \o home
                   \o <<"/", other, " ">>
      IN q \in {SQ, DQ} =>
           /\ Len(a) = Len(b) + Len(ins)
           /\ \A k \in 1..(s + 1) : a[k] = b[k]
           /\ SubSeq(a, s + 2, s + 1 + Len(ins)) = ins
           /\ \A k \in (s + 2)..Len(b) : a[k + Len(ins)] = b[k]

C6_Witness ==
  \E i \in 1..Len(patched) :
    /\ patched[i].outcome = "patch"
    /\ LET b == patched[i].before
           m == SearchJvmOpts(b)
       IN /\ Slice(b, m.start, m.end) = <<DQ, "-", "X", DQ>>
          /\ Len(b) > m.end + 1

\* C7: a user file that exists before the first run keeps its content and mode through
\* every run, and no step writes the prototype.
C7_UserFileKept ==
  /\ [](yml0.exists => localYml = yml0)
  /\ [][prototype' = prototype]_vars

\* A second run that ended well with the user file in place: the script it found had
\* been patched by the run before.
C7_Witness ==
  /\ yml0.exists
  /\ pc = "done"
  /\ localYml = yml0
  /\ \E i \in 1..Len(patched) :
       patched[i].outcome = "already" /\ patched[i].before # DirectedScript

\* C8: with an s3:// release path and no region, no aws command has been invoked.
C8_RegionBeforeNetwork ==
  (startswith(options.release_path, S3Prefix) /\ ~options.region) =>
    Positions("aws_version") \cup Positions("aws_ls") = {}

\* C9: with a release path that has no scheme and does not exist, the run never gets
\* past check_release_dir, which raises ValueError; no command has been invoked and
\* no file written.
UnknownPath ==
  /\ options.release_path # <<>>
  /\ ~startswith(options.release_path, GsPrefix)
  /\ ~startswith(options.release_path, S3Prefix)
  /\ ~releaseExists

C9_UnknownPathRejected ==
  UnknownPath =>
    /\ pc \in {"check_options", "check_release_dir", "failed"}
    /\ pc = "failed" => error.type = "ValueError"
                        /\ error.at \in {"check_options", "check_release_dir"}
    /\ log = <<>>
    /\ jobs = <<>>
    /\ localYml = yml0
    /\ temp = NoFile

C9_Witness ==
  /\ UnknownPath
  /\ pc = "failed"
  /\ error = Raise("ValueError", "check_release_dir", 0)

\* C10 as stated: the scripts are made executable after the copy jobs are joined and
\* before the first dpkg -i.
C10_ChmodBeforeInstall ==
  /\ \A k \in Positions("chmod_x"), m \in Positions("communicate") : m < k
  /\ \A k \in Positions("dpkg") : \E m \in Positions("chmod_x") : m < k

\* C10, amended: the scripts are made executable after the copy jobs are joined and
\* after every package-manager operation of the run, the closing repair pass included,
\* and before the user file is written.
C10_ChmodAfterInstall ==
  \A k \in Positions("chmod_x") :
    /\ \A m \in Positions("communicate") \cup Positions("dpkg") \cup Positions("apt") :
         m < k
    /\ options.spinnaker => \E m \in 1..(k - 1) : log[m] = Event("apt", 0, 0)
    /\ \A m \in Positions("copy_local_yml") : k < m

C10_Witness ==
  /\ pc = "done"
  /\ options.spinnaker
  /\ Len(package_list) >= 2
  /\ Cardinality(Positions("chmod_x")) = 2
  /\ Positions("copy_local_yml") # {}

\* C12: the directive put into a launch script lists <installation directory>/config,
\* then the user directory.
C12_DirectiveListsInstallRoot ==
  \A i \in 1..Len(patched) :
    patched[i].outcome = "patch" =>
      find(patched[i].after,
           SpringConfigOpt \o get_config_install_dir(options) \o <<"/", ",">>
             \o home \o <<"/">>) >= 0

\* C11: a stage is not entered after a failure of the one before it. After a failed
\* read of the package list no copy job is started; after a failed join no
\* package-manager command and no patch step is invoked; after a failure of the
\* install loop or of the closing repair pass no script is made executable and the
\* user file is not written.
CopyStarts == Positions("cp") \cup Positions("gsutil_cp") \cup Positions("aws_cp")

PatchSteps ==
  {k \in 1..Len(log) : log[k].op \in {"mkstemp", "chmod_reference", "mv"} /\ log[k].arg >= 1}

ProvisionSteps ==
  Positions("copy_local_yml") \cup {k \in Positions("mkstemp") : log[k].arg = 0}

InstallFailed ==
  \/ \E k \in Positions("apt") \cup Positions("chmod_reference") \cup Positions("mv") :
       log[k].rc # 0
  \/ pc = "failed" /\ error.at = "inject"

C11_NoStageAfterFailure ==
  /\ (pc = "failed" /\ error.at = "package_list") =>
       jobs = <<>> /\ CopyStarts = {}
  /\ (\E k \in Positions("communicate") : log[k].rc # 0) =>
       /\ Positions("dpkg") \cup Positions("apt") \cup PatchSteps = {}
       /\ Positions("chmod_x") \cup ProvisionSteps = {}
  /\ InstallFailed =>
       /\ pc = "failed"
       /\ Positions("chmod_x") \cup ProvisionSteps = {}

C11_Witness ==
  /\ pc = "failed"
  /\ Len(package_list) = 3
  /\ log[Len(log)] = Event("apt", 0, 1)
  /\ Positions("mv") # {}

\* The launch script the patcher is about to read, and the value of its
\* DEFAULT_JVM_OPTS line (empty when there is no such line).
CurrentScript == scripts[Subsystem(package_list[idx])]

CurrentValue ==
  LET c == CurrentScript.content
      m == SearchJvmOpts(c)
  IN IF m = NoMatch THEN <<>> ELSE Slice(c, m.start, m.end)

AtPatcher == pc = "inject" /\ Subsystem(package_list[idx]) # Deck /\ CurrentScript.exists

\* C13: when the value of the DEFAULT_JVM_OPTS line already holds a directive, the
\* patcher returns at once: no file is written, no command is invoked, nothing has
\* failed, and the loop goes on to the next package.
C13_DirectiveLeftAlone ==
  [][(AtPatcher /\ find(CurrentValue, SpringConfigOpt) >= 0) =>
       /\ scripts' = scripts
       /\ temp' = temp
       /\ log' = log
       /\ error' = error
       /\ pc' = "dpkg"
       /\ idx' = idx + 1]_vars

C13_Witness ==
  /\ pc = "dpkg"
  /\ idx = 2
  /\ Len(patched) = 1
  /\ patched[1].outcome = "already"
  /\ LET m == SearchJvmOpts(patched[1].before)
     IN find(Slice(patched[1].before, m.start, m.end), SpringConfigOpt) > 1
  /\ scripts[patched[1].subsystem].content = patched[1].before

\* C14: a launch script changes only in the step that moves the temporary file over
\* it, and that step comes right after the temporary file was written and the
\* script's mode was copied onto it, in that order; the script keeps its mode. A
\* permission copy that fails is the last command of the run, which has failed.
C14_ReplacedByMoveOnly ==
  /\ [][scripts' # scripts =>
          LET n == Len(log')
              sub == Subsystem(package_list[idx])
          IN /\ pc = "inject_mv"
             /\ n >= 3
             /\ log'[n] = Event("mv", idx, 0)
             /\ log'[n - 1] = Event("chmod_reference", idx, 0)
             /\ log'[n - 2] = Event("mkstemp", idx, 0)
             /\ scripts'[sub].mode = scripts[sub].mode
             /\ scripts'[sub].content = temp.content
             /\ \A s \in Subsystems \ {sub} : scripts'[s] = scripts[s]]_vars
  /\ [](\A k \in Positions("chmod_reference") :
          log[k].rc # 0 => k = Len(log) /\ pc = "failed")

C14_Witness ==
  /\ pc = "failed"
  /\ error.at = "inject_chmod"
  /\ log[Len(log)].op = "chmod_reference"
  /\ log[Len(log) - 1].op = "mkstemp"
  /\ scripts[Gate].content = PlainScript
  /\ temp.exists

\* C15: no entry of the package list has more than one copy job; once the wait
\* begins there is exactly one job per entry, repeated entries included, started in
\* list order; and every job was started before any job was waited on.
StartsOf(i) == {k \in CopyStarts : log[k].arg = i}

CopyStageOver == pc \notin {"check_options", "check_release_dir", "gsutil_version",
                            "gsutil_ls", "aws_version", "aws_ls", "check_region",
                            "runtime_dependencies", "install_spinnaker", "helper_dir",
                            "package_list", "package_dir", "start_copy", "failed", "done"}

C15_OneJobPerEntry ==
  /\ Len(jobs) = Cardinality(CopyStarts)
  /\ \A i \in 1..Len(package_list) : Cardinality(StartsOf(i)) <= 1
  /\ \A k \in CopyStarts, m \in Positions("communicate") : k < m
  /\ \A k, m \in CopyStarts : k < m => log[k].arg < log[m].arg
  /\ (options.spinnaker /\ (CopyStageOver \/ Positions("communicate") # {})) =>
       /\ Len(jobs) = Len(package_list)
       /\ \A i \in 1..Len(package_list) : Cardinality(StartsOf(i)) = 1

C15_Witness ==
  /\ pc = "failed"
  /\ error.at = "wait"
  /\ package_list = <<GatePkg, DeckPkg, GatePkg>>
  /\ Len(jobs) = 3
  /\ jobs[1].joined /\ jobs[1].returncode = 0
  /\ jobs[2].joined /\ jobs[2].returncode # 0

\* C16: every step of the patch of package i comes after dpkg i and a successful
\* repair pass i, and before dpkg of any later package; the patcher is entered right
\* after a successful repair pass of its package; and when dpkg i is invoked the
\* patcher has returned for each of the i - 1 packages before it.
C16_InstallThenPatch ==
  /\ \A k \in PatchSteps :
       LET i == log[k].arg
       IN /\ \E a, b \in 1..(k - 1) :
               a < b /\ log[a].op = "dpkg" /\ log[a].arg = i /\ log[b] = Event("apt", i, 0)
          /\ \A m \in Positions("dpkg") : log[m].arg > i => m > k
  /\ pc = "inject" => log[Len(log)] = Event("apt", idx, 0)
  /\ \A k \in Positions("dpkg") : Len(patched) >= log[k].arg - 1
  /\ \A i \in 1..Len(patched) : \E b \in Positions("apt") : log[b] = Event("apt", i, 0)

C16_Witness ==
  \E k \in Positions("mv"), m \in Positions("dpkg") :
    /\ log[k] = Event("mv", 1, 0)
    /\ log[m].arg = 2
    /\ k < m
    /\ Len(patched) >= 2

ShapeError == pc = "failed" /\ error = Raise("ValueError", "inject", 0)

\* C17: a launch script without the DEFAULT_JVM_OPTS line makes the patcher fail with
\* ValueError, leaving the script, the temporary file and the invoked commands as they
\* were; and in a run failed that way the last command invoked is the repair pass of
\* the package being patched: the packages up to it have been through dpkg, no later
\* package has, and neither the final repair pass nor a later step was invoked.
C17_ShapeErrorAborts ==
  /\ [][(AtPatcher /\ SearchJvmOpts(CurrentScript.content) = NoMatch) =>
          /\ ShapeError'
          /\ scripts' = scripts
          /\ temp' = temp
          /\ log' = log
          /\ idx' = idx]_vars
  /\ [][ShapeError => (ShapeError' \/ pc' = "check_options")]_vars
  /\ [](ShapeError =>
          /\ log[Len(log)] = Event("apt", idx, 0)
          /\ \A i \in 1..idx : \E k \in Positions("dpkg") : log[k].arg = i
          /\ \A k \in Positions("dpkg") : log[k].arg <= idx
          /\ \A k \in Positions("apt") : log[k].arg \in 1..idx
          /\ Positions("chmod_x") = {}
          /\ ProvisionSteps = {}
          /\ Len(patched) = idx - 1)

C17_Witness ==
  /\ ShapeError
  /\ idx = 2
  /\ Len(package_list) = 3
  /\ SearchJvmOpts(CurrentScript.content) = NoMatch
  /\ \E k \in Positions("dpkg") : log[k].arg = 1

InstallBegun == pc \in {"dpkg", "apt", "inject", "inject_chmod", "inject_mv", "final_apt"}

EveryEntryCopied ==
  /\ Len(jobs) = Len(package_list)
  /\ \A i \in 1..Len(package_list) :
       /\ StartsOf(i) # {}
       /\ jobs[i] = [state |-> "exited", returncode |-> 0, joined |-> TRUE]

\* C18: whenever the install stage has begun, the manifest has at least one entry and
\* every entry has a copy job that was joined with exit status zero.
C18_ManifestNonEmptyAndCopied ==
  InstallBegun => (Len(package_list) >= 1 /\ EveryEntryCopied)

Terminal == pc \in {"done", "failed"}

\* C19: when every started process exits, the run ends: it reaches Done or Failed.
C19_RunTerminates == <>Terminal

C19_Witness ==
  /\ pc = "done"
  /\ Len(package_list) = 2
  /\ \A j \in 1..Len(jobs) : jobs[j].joined
  /\ Len(patched) = Len(package_list)

HelperSteps ==
  {k \in 1..Len(log) : log[k].op = "mkdir" /\ log[k].arg = 1}
    \cup CopyStarts \cup Positions("communicate")
    \cup Positions("dpkg") \cup Positions("apt") \cup PatchSteps

\* C20: with the component flag off, the manifest is not read and no copy, install or
\* patch step happens; with it off and the dependencies flag on, a run that ends Done
\* has marked the scripts and the install directory executable and the user file
\* exists, written from the prototype when it was absent; with both flags off
\* install_spinnaker returns at once, changing nothing.
C20_ComponentFlagGates ==
  /\ [](~options.spinnaker =>
          /\ package_list = <<>>
          /\ jobs = <<>>
          /\ patched = <<>>
          /\ HelperSteps = {}
          /\ pc \notin {"helper_dir", "package_list", "package_dir", "start_copy", "wait",
                        "dpkg", "apt", "inject", "inject_chmod", "inject_mv", "final_apt"})
  /\ []((~options.spinnaker /\ options.dependencies /\ pc = "done") =>
          /\ \E a, b \in Positions("chmod_x") :
               a < b /\ log[a] = Event("chmod_x", 1, 0) /\ log[b] = Event("chmod_x", 2, 0)
          /\ localYml.exists
          /\ ~yml0.exists => localYml = File(prototype.content, LocalYmlMode))
  /\ [][(pc = "install_spinnaker" /\ ~options.spinnaker /\ ~options.dependencies) =>
          /\ pc' = "done"
          /\ UNCHANGED << Host, dirExists, scripts, localYml, temp, idx, package_list,
                          jobs, log, patched, error >>]_vars
  /\ []((~options.spinnaker /\ ~options.dependencies) =>
          /\ Positions("chmod_x") = {}
          /\ ProvisionSteps = {}
          /\ Positions("mkdir") = {}
          /\ localYml = yml0
          /\ dirExists = prototype.exists)

C20_Witness ==
  /\ ~options.spinnaker
  /\ options.dependencies
  /\ pc = "done"
  /\ ~yml0.exists
  /\ localYml = File(<<"p">>, LocalYmlMode)
  /\ Positions("chmod_x") # {}

====
